---- MODULE Spec2Model ----
(***************************************************************************)
(* Model of caret_analyze.common.util.Util: the three lookups find_one,    *)
(* find_similar_one and find_similar_one_multi_keys.                       *)
(*                                                                         *)
(* A string is a sequence of one-character strings.  A similarity score is *)
(* a Python float (IEEE 754 double), kept exactly: see "Floats" below.  A  *)
(* reference to an item of the collection (most_similar_item) is the       *)
(* 1-based position of the item, and 0 stands for a local variable that    *)
(* was never bound.                                                        *)
(***************************************************************************)
EXTENDS Integers, Sequences, FiniteSets

VARIABLES pc, fn, args, idx, similarity, most_similar_item, result

vars == <<pc, fn, args, idx, similarity, most_similar_item, result>>

\* Longest collection the model draws.
MaxItems == 2

----------------------------------------------------------------------------
(* Fractions *)

RECURSIVE Gcd(_, _)
Gcd(a, b) == IF b = 0 THEN a ELSE Gcd(b, a % b)

Abs(n) == IF n < 0 THEN -n ELSE n

Frac(n, d) == LET g == Gcd(Abs(n), d) IN <<n \div g, d \div g>>

Zero == <<0, 1>>
One == <<1, 1>>

FracLess(x, y) == x[1] * y[2] < y[1] * x[2]
FracLeq(x, y) == x[1] * y[2] <= y[1] * x[2]
FracAdd(x, y) == Frac(x[1] * y[2] + y[1] * x[2], x[2] * y[2])

FracSub(x, y) == Frac(x[1] * y[2] - y[1] * x[2], x[2] * y[2])
\* x * 2^k, k of either sign.
Scale(x, k) == IF k >= 0 THEN Frac(x[1] * 2^k, x[2]) ELSE Frac(x[1], x[2] * 2^(-k))

----------------------------------------------------------------------------
(* Floats.  A double x is kept as [q, u]: x = q + u * ulp(q), where q is a *)
(* fraction with a small denominator (the value the arithmetic would have  *)
(* without rounding), ulp(q) the spacing of the doubles in the binade of   *)
(* q, and u a fraction, the accumulated rounding error in units of it.     *)
(* The residue of q * 2^p modulo its denominator gives the rounding of q   *)
(* exactly, with small integers only.  Two doubles whose q differ are      *)
(* ordered as their q (the q of the scores and thresholds are many ulps    *)
(* apart); two doubles with the same q are ordered by u.                   *)

\* Bits of the significand of a double.
Mantissa == 53

\* floor(log2(n / d)) for n, d > 0.
RECURSIVE FloorLog2(_, _)
FloorLog2(n, d) ==
    IF n >= 2 * d THEN 1 + FloorLog2(n, 2 * d)
    ELSE IF n < d THEN FloorLog2(2 * n, d) - 1
    ELSE 0

\* 2^p modulo m, p >= 0.
RECURSIVE Pow2Mod(_, _)
Pow2Mod(p, m) ==
    IF p = 0 THEN 1 % m
    ELSE LET h == Pow2Mod(p \div 2, m)
         IN  IF p % 2 = 0 THEN (h * h) % m ELSE (2 * h * h) % m

RECURSIVE IsPow2(_)
IsPow2(n) == n = 1 \/ (n % 2 = 0 /\ IsPow2(n \div 2))

\* The integer nearest to the fraction f, a tie going to the j that makes
\* K + j even, K being odd iff kOdd (round-half-to-even).
RoundHalfEven(f, kOdd) ==
    LET lo == f[1] \div f[2]
        rem == f[1] - lo * f[2]
    IN  IF 2 * rem < f[2] THEN lo
        ELSE IF 2 * rem > f[2] THEN lo + 1
        ELSE IF (lo % 2 = 1) = kOdd THEN lo ELSE lo + 1

\* The double nearest to q + t * ulp(q), for a fraction q > 0 and a small
\* fraction t.  With p such that 2^52 <= q * 2^p < 2^53, q * 2^p is K + rho/d
\* for an integer K; the doubles of the binade are the integers on that
\* scale.  Just below a power of two the doubles are twice as dense.
RoundFloat(q, t) ==
    LET n == q[1]
        d == q[2]
        p == Mantissa - 1 - FloorLog2(n, d)
        m == (n * Pow2Mod(p, 2 * d)) % (2 * d)
        rho == m % d
        f == FracAdd(Frac(rho, d), t)
    IN  IF rho = 0 /\ IsPow2(n) /\ IsPow2(d) /\ f[1] < 0
        THEN [q |-> q, u |-> Frac(RoundHalfEven(Scale(f, 1), FALSE), 2)]
        ELSE [q |-> q, u |-> FracSub(<<RoundHalfEven(f, m >= d), 1>>, Frac(rho, d))]

FZero == [q |-> Zero, u |-> Zero]
FOne == [q |-> One, u |-> Zero]

\* The double nearest to n / d (a float literal, or a correctly rounded
\* division of two small integers).
FloatOf(n, d) ==
    IF n = 0 THEN FZero
    ELSE IF n > 0 THEN RoundFloat(Frac(n, d), Zero)
    ELSE LET x == RoundFloat(Frac(-n, d), Zero)
         IN  [q |-> <<-x.q[1], x.q[2]>>, u |-> <<-x.u[1], x.u[2]>>]

\* float < and <=
FLess(x, y) == IF x.q = y.q THEN FracLess(x.u, y.u) ELSE FracLess(x.q, y.q)
FLeq(x, y) == x = y \/ FLess(x, y)

----------------------------------------------------------------------------
(* difflib.SequenceMatcher(None, a, b).ratio() for strings shorter than    *)
(* 200 characters (no junk, no autojunk).                                  *)

\* Length of the common run of a and b that starts at a[i], b[j] and stays
\* within a[..ahi], b[..bhi].
RECURSIVE RunLen(_, _, _, _, _, _)
RunLen(a, b, i, j, ahi, bhi) ==
    IF i > ahi \/ j > bhi \/ a[i] # b[j] THEN 0
    ELSE 1 + RunLen(a, b, i + 1, j + 1, ahi, bhi)

\* find_longest_match: the longest block a[i..i+k-1] = b[j..j+k-1] within
\* a[alo..ahi], b[blo..bhi]; of the longest ones the one that starts earliest
\* in a, and of those the one that starts earliest in b.  <<i, j, k>>.
FindLongestMatch(a, b, alo, ahi, blo, bhi) ==
    LET cands == {<<i, j, RunLen(a, b, i, j, ahi, bhi)>> :
                      i \in alo..ahi, j \in blo..bhi}
        Before(p, q) == \/ p[3] > q[3]
                        \/ p[3] = q[3] /\ p[1] < q[1]
                        \/ p[3] = q[3] /\ p[1] = q[1] /\ p[2] <= q[2]
    IN  IF cands = {} THEN <<alo, blo, 0>>
        ELSE CHOOSE p \in cands : \A q \in cands : Before(p, q)

\* get_matching_blocks: total size of the matching blocks, found by taking the
\* longest match and recursing on the pieces to its left and to its right.
RECURSIVE Matches(_, _, _, _, _, _)
Matches(a, b, alo, ahi, blo, bhi) ==
    IF alo > ahi \/ blo > bhi THEN 0
    ELSE LET m == FindLongestMatch(a, b, alo, ahi, blo, bhi)
         IN  IF m[3] = 0 THEN 0
             ELSE m[3]
                  + Matches(a, b, alo, m[1] - 1, blo, m[2] - 1)
                  + Matches(a, b, m[1] + m[3], ahi, m[2] + m[3], bhi)

\* ratio(): 2.0 * matches / (len(a) + len(b)), and 1.0 for two empty strings.
Ratio(a, b) ==
    LET length == Len(a) + Len(b)
    IN  IF length = 0 THEN FOne
        ELSE FloatOf(2 * Matches(a, b, 1, Len(a), 1, Len(b)), length)

----------------------------------------------------------------------------
(* Inputs *)

SeqsUpTo(S, n) == UNION {[1..k -> S] : k \in 0..n}

\* find_one: items are small integers, a condition is the set of the values it
\* accepts, and the collection may be absent (None).
Values == 1..3
Conditions == SUBSET Values
OptCollections ==
    {[absent |-> TRUE, seq |-> <<>>]}
        \cup {[absent |-> FALSE, seq |-> s] : s \in SeqsUpTo(Values, MaxItems)}

\* find_similar_one: items are strings, the key is the default identity.
Names == {<<>>, <<"a">>, <<"b">>, <<"a", "b">>, <<"b", "a">>, <<"a", "b", "c">>}
TargetNames == {<<>>, <<"a">>, <<"a", "b">>, <<"a", "b", "c">>}

\* th: the default 0.6, the boundary values 0.0 and 1.0, 0.5 (a score the
\* pools produce) and a negative threshold.
DefaultTh == FloatOf(3, 5)
Ths == {FloatOf(-1, 2), FZero, FloatOf(1, 2), DefaultTh, FOne}

\* find_similar_one_multi_keys: an item is its own key mapping (the default
\* keys), a function from some of the field names to a value that is a string
\* or None; a field outside the domain is absent from the dict.  Dicts
\* iterate in the order of FieldOrder.  Against the target "ab" the values
\* score 0.0 (None), 1.0, 0.8 and 0.4; the mean of the doubles 0.4 and 0.8 is
\* 0.6000000000000001, one ulp above the default threshold 0.6.
FieldOrder == <<"a", "b">>
Fields == {FieldOrder[i] : i \in 1..Len(FieldOrder)}
None == [null |-> TRUE, str |-> <<>>]
Str(s) == [null |-> FALSE, str |-> s]
ItemVals == {None, Str(<<"a", "b">>), Str(<<"a", "b", "c">>), Str(<<"b", "c", "d">>)}
\* The dicts have the field "a", with any of the values, and may have the
\* field "b", with any of the values but the last.
FieldVals ==
    [a |-> ItemVals, b |-> {None, Str(<<"a", "b">>), Str(<<"a", "b", "c">>)}]
ItemDicts ==
    UNION {{d \in [D -> ItemVals] : \A f \in D : d[f] \in FieldVals[f]} :
               D \in {{"a"}, {"a", "b"}}}
TargetVals == {<<"a", "b">>}
TargetDicts == UNION {[D -> TargetVals] : D \in {{}, {"a"}, {"a", "b"}}}

DictKeys(d) == SelectSeq(FieldOrder, LAMBDA f : f \in DOMAIN d)

----------------------------------------------------------------------------
(* Outcomes of a call *)

ItemNotFoundError == "ItemNotFoundError"
MultipleItemFoundError == "MultipleItemFoundError"

NoResult == [kind |-> "none"]
Returned(v, pos) == [kind |-> "return", value |-> v, pos |-> pos]
Raised(exc, head, body) == [kind |-> "raise", exc |-> exc, head |-> head, body |-> body]

FailedFindItem == Raised(ItemNotFoundError, "Failed find item.", <<>>)
\* Mutant: ambiguity raised as the not-found class.
FailedToIdentifyAsNotFound ==
    Raised(ItemNotFoundError, "Failed to identify item.", <<>>)

FailedToIdentify == Raised(MultipleItemFoundError, "Failed to identify item.", <<>>)
\* Reading most_similar_item when no iteration has bound it.
UnboundLocal == Raised("UnboundLocalError", "most_similar_item", <<>>)

----------------------------------------------------------------------------
(* find_one *)

\* Positions of the items of x that satisfy f, in order; [] for None.
filter_items(f, x) ==
    IF x.absent THEN <<>>
    ELSE SelectSeq([i \in 1..Len(x.seq) |-> i], LAMBDA i : x.seq[i] \in f)

\* Mutant: the ambiguity test off by one.
TooManyOffByOne(n) == n > 2

TooMany(n) == n >= 2

find_one(condition, items) ==
    IF items.absent THEN FailedFindItem
    ELSE LET filtered == filter_items(condition, items)
         IN  IF Len(filtered) = 0 THEN FailedFindItem
             ELSE IF TooMany(Len(filtered)) THEN FailedToIdentify
             ELSE Returned(items.seq[filtered[1]], filtered[1])

----------------------------------------------------------------------------
(* find_similar_one *)

key(item) == item

\* Mutant: the running maximum starts below every score.
InitialSimilarityNegative == FloatOf(-1, 1)

\* `similarity = 0.0`, `max_similarity = 0.0`
InitialSimilarity == FZero

\* `if (distance > similarity)`
IsMoreSimilar(distance, sim) == FLess(sim, distance)

\* `assert 0.0 <= similarity <= 1.0`
ScoreAssertion(sim) == FLeq(FZero, sim) /\ FLeq(sim, FOne)

\* Mutant: the exact-match test is missing, only the threshold decides.
FindSimilarOneDecisionNoExact(items, thr, sim, best) ==
    IF FLess(thr, sim) THEN
        IF best = 0 THEN UnboundLocal
        ELSE Raised(ItemNotFoundError, "Arguments may be wrong. Isn't it",
                    <<key(items[best])>>)
    ELSE FailedFindItem

\* The statements after the scan: assertion, then the three-way decision.
FindSimilarOneDecision(items, thr, sim, best) ==
    IF ~ScoreAssertion(sim) THEN Raised("AssertionError", "", <<>>)
    ELSE IF sim = FOne THEN
        IF best = 0 THEN UnboundLocal ELSE Returned(items[best], best)
    ELSE IF FLess(thr, sim) THEN
        IF best = 0 THEN UnboundLocal
        ELSE Raised(ItemNotFoundError, "Arguments may be wrong. Isn't it",
                    <<key(items[best])>>)
    ELSE FailedFindItem

----------------------------------------------------------------------------
(* find_similar_one_multi_keys *)

keys(item) == item

\* The inner loop: one score per requested field, 0.0 for a None value.
FieldScore(keys_dict, target_names, f) ==
    IF keys_dict[f].null THEN FZero
    ELSE Ratio(keys_dict[f].str, target_names[f])

EachSimilarity(keys_dict, target_names) ==
    LET req == DictKeys(target_names)
    IN  [i \in 1..Len(req) |-> FieldScore(keys_dict, target_names, req[i])]

\* keys_dict[target_name] of a field the dict does not have raises KeyError.
MissingFields(keys_dict, target_names) ==
    SelectSeq(DictKeys(target_names), LAMBDA f : f \notin DOMAIN keys_dict)

\* Sum of the fractions q of the doubles of s.
RECURSIVE SumQ(_)
SumQ(s) == IF s = <<>> THEN Zero ELSE FracAdd(Head(s).q, SumQ(Tail(s)))

\* Sum of the rounding errors of the doubles of s, in ulps of the binade
\* whose exponent is e.
RECURSIVE SumU(_, _)
SumU(s, e) ==
    IF s = <<>> THEN Zero
    ELSE LET x == Head(s)
             ux == IF x.q = Zero THEN Zero
                   ELSE Scale(x.u, FloorLog2(x.q[1], x.q[2]) - e)
         IN  FracAdd(ux, SumU(Tail(s), e))

\* The double nearest to the exact sum of the doubles of s (none negative)
\* divided by k: statistics.mean sums exactly, as fractions, divides, and
\* rounds once.
SumDiv(s, k) ==
    LET qs == SumQ(s)
        qm == Frac(qs[1], qs[2] * k)
    IN  IF qm = Zero THEN FZero
        ELSE LET t == SumU(s, FloorLog2(qm[1], qm[2]))
             IN  RoundFloat(qm, Frac(t[1], t[2] * k))

\* Mutant: the sum of the field scores, not divided by their number.
MeanNoDivide(s) == SumDiv(s, 1)

\* statistics.mean of a non-empty list.
Mean(s) == SumDiv(s, Len(s))

\* Mutant: the last entry of the dict is left out of the message.
SuggestionLinesDropLast(keys_dict) ==
    LET ks == DictKeys(keys_dict)
    IN  [i \in 1..(Len(ks) - 1) |-> <<ks[i], keys_dict[ks[i]].str>>]

\* The suggestion message: one k='v' line per entry of the best item's dict.
SuggestionLines(keys_dict) ==
    LET ks == DictKeys(keys_dict)
    IN  [i \in 1..Len(ks) |-> <<ks[i], keys_dict[ks[i]].str>>]

MultiKeysDecision(items, thr, sim, best) ==
    IF ~ScoreAssertion(sim) THEN Raised("AssertionError", "", <<>>)
    ELSE IF sim = FOne THEN
        IF best = 0 THEN UnboundLocal ELSE Returned(items[best], best)
    ELSE IF FLess(thr, sim) THEN
        IF best = 0 THEN UnboundLocal
        ELSE LET keys_dict == keys(items[best])
             IN  IF \E f \in DOMAIN keys_dict : keys_dict[f].null
                 THEN Raised("TypeError", "can only concatenate str", <<>>)
                 ELSE Raised(ItemNotFoundError,
                             "Arguments may be wrong. Aren't they bellow?",
                             SuggestionLines(keys_dict))
    ELSE FailedFindItem

----------------------------------------------------------------------------
(* The calls as a state machine *)

NoArgs == [items |-> <<>>]

Init ==
    /\ pc = "idle"
    /\ fn = "none"
    /\ args = NoArgs
    /\ idx = 0
    /\ similarity = InitialSimilarity
    /\ most_similar_item = 0
    /\ result = NoResult

\* Util.find_one(condition, items): no loop state, the call runs to its end.
FindOne ==
    /\ pc = "idle"
    /\ \E c \in Conditions, x \in OptCollections :
          /\ args' = [condition |-> c, items |-> x]
          /\ result' = find_one(c, x)
    /\ fn' = "find_one"
    /\ pc' = "done"
    /\ UNCHANGED <<idx, similarity, most_similar_item>>

\* Entry of find_similar_one: `similarity = 0.0`, most_similar_item unbound.
CallFindSimilarOne ==
    /\ pc = "idle"
    /\ \E t \in TargetNames, x \in SeqsUpTo(Names, MaxItems), thr \in Ths :
          args' = [target_name |-> t, items |-> x, th |-> thr]
    /\ fn' = "find_similar_one"
    /\ pc' = "scan"
    /\ idx' = 0
    /\ similarity' = InitialSimilarity
    /\ most_similar_item' = 0
    /\ UNCHANGED result

\* FOne iteration of `for item in items`.
ScanFindSimilarOne ==
    /\ pc = "scan"
    /\ fn = "find_similar_one"
    /\ idx < Len(args.items)
    /\ LET item == args.items[idx + 1]
           distance == Ratio(key(item), args.target_name)
       IN  IF IsMoreSimilar(distance, similarity)
           THEN /\ similarity' = distance
                /\ most_similar_item' = idx + 1
           ELSE UNCHANGED <<similarity, most_similar_item>>
    /\ idx' = idx + 1
    /\ UNCHANGED <<pc, fn, args, result>>

\* The loop is exhausted: assertion and decision.
DecideFindSimilarOne ==
    /\ pc = "scan"
    /\ fn = "find_similar_one"
    /\ idx = Len(args.items)
    /\ result' = FindSimilarOneDecision(args.items, args.th, similarity,
                                        most_similar_item)
    /\ pc' = "done"
    /\ UNCHANGED <<fn, args, idx, similarity, most_similar_item>>

\* Entry of find_similar_one_multi_keys: `max_similarity = 0.0`.
CallMultiKeys ==
    /\ pc = "idle"
    /\ \E t \in TargetDicts, x \in SeqsUpTo(ItemDicts, MaxItems), thr \in Ths :
          args' = [target_names |-> t, items |-> x, th |-> thr]
    /\ fn' = "find_similar_one_multi_keys"
    /\ pc' = "scan"
    /\ idx' = 0
    /\ similarity' = InitialSimilarity
    /\ most_similar_item' = 0
    /\ UNCHANGED result

\* Mutant: a tie replaces the current best.
IsMoreSimilarMultiOrEqual(m, sim) == FLeq(sim, m)

\* `if (mean(each_similarity) > max_similarity)`
IsMoreSimilarMulti(m, sim) == FLess(sim, m)

\* FOne iteration of the outer loop: the inner loop over the requested fields,
\* then the comparison with the running maximum.  A requested field the item
\* lacks raises KeyError, no requested field at all makes mean() raise.
ScanMultiKeys ==
    /\ pc = "scan"
    /\ fn = "find_similar_one_multi_keys"
    /\ idx < Len(args.items)
    /\ LET keys_dict == keys(args.items[idx + 1])
           missing == MissingFields(keys_dict, args.target_names)
           each_similarity == EachSimilarity(keys_dict, args.target_names)
           score == Mean(each_similarity)
       IN  IF missing # <<>> THEN
               /\ result' = Raised("KeyError", Head(missing), <<>>)
               /\ pc' = "done"
               /\ UNCHANGED <<idx, similarity, most_similar_item>>
           ELSE IF each_similarity = <<>> THEN
               /\ result' = Raised("StatisticsError",
                                   "mean requires at least one data point", <<>>)
               /\ pc' = "done"
               /\ UNCHANGED <<idx, similarity, most_similar_item>>
           ELSE
               /\ IF IsMoreSimilarMulti(score, similarity)
                  THEN /\ similarity' = score
                       /\ most_similar_item' = idx + 1
                  ELSE UNCHANGED <<similarity, most_similar_item>>
               /\ idx' = idx + 1
               /\ UNCHANGED <<pc, result>>
    /\ UNCHANGED <<fn, args>>

DecideMultiKeys ==
    /\ pc = "scan"
    /\ fn = "find_similar_one_multi_keys"
    /\ idx = Len(args.items)
    /\ result' = MultiKeysDecision(args.items, args.th, similarity,
                                   most_similar_item)
    /\ pc' = "done"
    /\ UNCHANGED <<fn, args, idx, similarity, most_similar_item>>

Next ==
    \/ FindOne
    \/ CallFindSimilarOne
    \/ ScanFindSimilarOne
    \/ DecideFindSimilarOne
    \/ CallMultiKeys
    \/ ScanMultiKeys
    \/ DecideMultiKeys

Spec == Init /\ [][Next]_vars

----------------------------------------------------------------------------
(* Vocabulary of the properties *)

Done == pc = "done"
Single == fn = "find_similar_one"
Multi == fn = "find_similar_one_multi_keys"
Fuzzy == Single \/ Multi

\* The scan visited every item (no iteration raised).
Scanned == Fuzzy /\ idx = Len(args.items)

\* The function f itself: comparing it makes TLC enumerate it once, where it
\* would otherwise evaluate the body again at every application.
Tabulated(f) == IF f = f THEN f ELSE f

\* The ratio of every pair of strings of the pools, tabulated once.
KnownStrings ==
    Names \cup TargetNames \cup TargetVals \cup {v.str : v \in ItemVals}
RatioTable ==
    Tabulated([a \in KnownStrings |-> [b \in KnownStrings |-> Ratio(a, b)]])

\* The score of every dict of the pool against every target of the pool,
\* tabulated once: the mean over the requested fields of the ratio of the
\* field's value and target, 0.0 standing for a None value.  It is defined
\* when a field is requested and the dict has every requested field.
ScoreTable ==
    Tabulated([t \in TargetDicts |-> [d \in ItemDicts |->
        IF DOMAIN t = {} \/ ~(DOMAIN t \subseteq DOMAIN d) THEN FZero
        ELSE LET req == DictKeys(t)
             IN  Mean([k \in 1..Len(req) |->
                         IF d[req[k]].null THEN FZero
                         ELSE RatioTable[d[req[k]].str][t[req[k]]]])]])

\* Score of the i-th item.
ScoreOf(i) ==
    IF Single THEN RatioTable[args.items[i]][args.target_name]
    ELSE ScoreTable[args.target_names][args.items[i]]

\* Positions of the first n items whose score no item of the first n exceeds.
Tops(n) ==
    LET sc == [i \in 1..n |-> ScoreOf(i)]
    IN  {i \in 1..n : \A j \in 1..n : FLeq(sc[j], sc[i])}
First(S) == CHOOSE i \in S : \A j \in S : i <= j

\* The larger of 0.0 and the greatest score of the first n items.
RunningMax(n) ==
    IF n = 0 THEN FZero
    ELSE LET m == ScoreOf(First(Tops(n)))
         IN  IF FLess(FZero, m) THEN m ELSE FZero

RaisedAs(exc) == result.kind = "raise" /\ result.exc = exc
NotFoundRaised == result = FailedFindItem
\* An ItemNotFoundError whose message names a candidate.
SuggestionRaised ==
    /\ RaisedAs(ItemNotFoundError)
    /\ result.head # FailedFindItem.head
    /\ result.body # <<>>

\* Positions of the items of find_one's collection that satisfy the condition.
Matching == {i \in 1..Len(args.items.seq) : args.items.seq[i] \in args.condition}

----------------------------------------------------------------------------
(* C1 *)

\* C1: find_one succeeds if and only if exactly one item of the collection
\* (None counting as empty) satisfies the condition, and then returns that
\* item; with no matching item it raises ItemNotFoundError, with two or more
\* it raises MultipleItemFoundError.
C1_FindOneContract ==
    (Done /\ fn = "find_one") =>
        /\ result.kind = "return" <=> Cardinality(Matching) = 1
        /\ result.kind = "return" =>
              /\ Matching = {result.pos}
              /\ result.value = args.items.seq[result.pos]
              /\ result.value \in args.condition
        /\ Cardinality(Matching) = 0 => result = FailedFindItem
        /\ Cardinality(Matching) >= 2 => RaisedAs(MultipleItemFoundError)
        /\ args.items.absent => result = FailedFindItem

\* The unique match is the second item of a two-item collection.
C1_Witness ==
    /\ Done /\ fn = "find_one"
    /\ Len(args.items.seq) = 2
    /\ result.kind = "return" /\ result.pos = 2

----------------------------------------------------------------------------
(* C2 *)

\* C2: in both fuzzy lookups on a non-empty collection the maximum score s
\* alone decides: s = 1.0 returns the best item, th < s < 1.0 raises the
\* suggestion error that carries the best item's key string(s), and
\* otherwise the generic not-found error is raised (so s = th is not found).
C2_ThresholdPolicy ==
    (Done /\ Scanned /\ Len(args.items) > 0) =>
        LET s == RunningMax(Len(args.items))
            best == First(Tops(Len(args.items)))
        IN  /\ s = FOne =>
                  result.kind = "return" /\ result.value = args.items[best]
            /\ (FLess(args.th, s) /\ s # FOne) =>
                  /\ SuggestionRaised
                  /\ Single => result.body = <<key(args.items[best])>>
                  /\ Multi =>
                        \A f \in DOMAIN args.target_names :
                            \E l \in 1..Len(result.body) :
                                result.body[l] = <<f, keys(args.items[best])[f].str>>
            /\ (FLeq(s, args.th) /\ s # FOne) => NotFoundRaised

----------------------------------------------------------------------------
(* C3 *)

\* C3: when some item of a collection of strings equals the target,
\* find_similar_one returns an item equal to the target, the first such item
\* in iteration order, whatever the threshold and the other items.
C3_ExactMatchReturned ==
    (Done /\ Single /\ \E i \in 1..Len(args.items) : args.items[i] = args.target_name) =>
        /\ result.kind = "return"
        /\ result.value = args.target_name
        /\ result.pos = First({i \in 1..Len(args.items) : args.items[i] = args.target_name})

\* The exact match is preceded by a different, similar item, and the
\* threshold is 1.0.
C3_Witness ==
    /\ Done /\ Single
    /\ Len(args.items) = 2
    /\ args.items[2] = args.target_name
    /\ args.items[1] # args.target_name
    /\ FLess(FZero, ScoreOf(1))
    /\ args.th = FOne
    /\ result.kind = "return" /\ result.pos = 2

----------------------------------------------------------------------------
(* C4 *)

\* Every item has every requested field, possibly with the value None.
NoFieldAbsent ==
    \A i \in 1..Len(args.items) : DOMAIN args.target_names \subseteq DOMAIN args.items[i]

\* Some item has the value None for a requested field.
SomeFieldNull ==
    \E i \in 1..Len(args.items) : \E f \in DOMAIN args.target_names :
        args.items[i][f].null

\* C4: in find_similar_one_multi_keys a requested field whose value is None
\* scores 0.0, the item's score is the mean over the requested fields, and
\* the None value makes no branch raise: every item is scanned and the
\* message of the suggestion branch is built without a TypeError.
C4_NullFieldNeverRaises ==
    (Done /\ Multi /\ NoFieldAbsent /\ SomeFieldNull) =>
        /\ Scanned
        /\ \A i \in 1..idx : \A k \in 1..Len(DictKeys(args.target_names)) :
              LET f == DictKeys(args.target_names)[k]
              IN  args.items[i][f].null =>
                      EachSimilarity(keys(args.items[i]), args.target_names)[k] = FZero
        /\ ~RaisedAs("TypeError")

----------------------------------------------------------------------------
(* C5 *)

\* C5: the suggestion message of find_similar_one_multi_keys has one line
\* per requested field, with the best candidate's value, and no line for a
\* field that was not requested.
C5_OnlyRequestedFields ==
    (Done /\ Multi /\ SuggestionRaised) =>
        LET req == DictKeys(args.target_names)
        IN  result.body =
                [i \in 1..Len(req) |->
                    <<req[i], keys(args.items[most_similar_item])[req[i]].str>>]

\* C5 as the code has it: the suggestion message has one line per field of
\* the best candidate's key mapping, in the mapping's order, each with the
\* candidate's value; these include every requested field.
C5_AllFieldsOfBest ==
    (Done /\ Multi /\ SuggestionRaised) =>
        LET keys_dict == keys(args.items[most_similar_item])
            ks == DictKeys(keys_dict)
        IN  /\ Len(result.body) = Cardinality(DOMAIN keys_dict)
            /\ \A i \in 1..Len(ks) :
                  result.body[i] = <<ks[i], keys_dict[ks[i]].str>>
            /\ DOMAIN args.target_names \subseteq
                  {result.body[i][1] : i \in 1..Len(result.body)}

\* A suggestion for a best candidate that has a field nobody asked about.
C5_Witness ==
    /\ Done /\ Multi /\ SuggestionRaised
    /\ DOMAIN args.target_names = {"a"}
    /\ DOMAIN args.items[most_similar_item] = {"a", "b"}
    /\ Len(result.body) = 2

----------------------------------------------------------------------------
(* C6 *)

\* C6: both fuzzy lookups called on an empty collection raise the generic
\* not-found error, for every target and threshold.
C6_EmptyCollectionNotFound ==
    (Done /\ Fuzzy /\ args.items = <<>>) => NotFoundRaised

----------------------------------------------------------------------------
(* C7 *)

\* The call is in the suggestion case: the scan ended with th < score < 1.0
\* and an error was raised.
SuggestionCase ==
    /\ Done /\ Scanned
    /\ FLess(args.th, similarity) /\ similarity # FOne
    /\ result.kind = "raise"

\* C7: the error class tells the three failures apart; a suggestion failure
\* is raised as a class of its own, not as the class of not-found or of
\* ambiguous.
C7_SuggestionIsOwnKind ==
    SuggestionCase => result.exc \notin {ItemNotFoundError, MultipleItemFoundError}

\* C7 as the code has it: not-found and ambiguous are two classes
\* (ItemNotFoundError, MultipleItemFoundError), ambiguous is raised exactly
\* by find_one with two or more matches, and a suggestion is raised as
\* ItemNotFoundError, told from the generic not-found only by its message.
C7_TwoKinds ==
    /\ ItemNotFoundError # MultipleItemFoundError
    /\ (Done /\ fn = "find_one") =>
          /\ Cardinality(Matching) = 0 => RaisedAs(ItemNotFoundError)
          /\ RaisedAs(MultipleItemFoundError) <=> Cardinality(Matching) >= 2
    /\ (Done /\ Fuzzy) => ~RaisedAs(MultipleItemFoundError)
    /\ (Done /\ Fuzzy /\ RaisedAs(ItemNotFoundError)) =>
          /\ SuggestionRaised <=> SuggestionCase
          /\ NotFoundRaised <=> ~SuggestionCase
          /\ SuggestionRaised => result.head # FailedFindItem.head

\* A suggestion raised as ItemNotFoundError.
C7_Witness ==
    /\ SuggestionCase
    /\ RaisedAs(ItemNotFoundError)
    /\ SuggestionRaised

----------------------------------------------------------------------------
(* C8 *)

\* C8: in both fuzzy lookups the running maximum lies in [0, 1] after every
\* iteration and at the end of the scan, as does the mean of the field
\* scores of every scanned item, and the assertion after the scan never fails.
C8_ScoreInRange ==
    Fuzzy =>
        /\ ScoreAssertion(similarity)
        /\ \A i \in 1..idx : ScoreAssertion(ScoreOf(i))
        /\ ~RaisedAs("AssertionError")

\* The multi-key scan has passed the assertion with a mean strictly between
\* 0 and 1 that comes from two different field scores and is not the double
\* nearest to the mean of their fractions (0.6000000000000001).
C8_Witness ==
    /\ Done /\ Multi /\ Scanned
    /\ idx = 2
    /\ FLess(FZero, similarity) /\ FLess(similarity, FOne)
    /\ similarity # FloatOf(similarity.q[1], similarity.q[2])
    /\ \E i \in 1..idx :
          LET e == EachSimilarity(keys(args.items[i]), args.target_names)
          IN  Len(e) = 2 /\ e[1] # e[2] /\ Mean(e) = similarity

----------------------------------------------------------------------------
(* C9 *)

\* C9: in both fuzzy lookups the best item is at every moment the first of
\* the scanned items that attain the maximum score, so the item returned
\* or suggested is the first one with the maximum score: an equal score
\* never replaces the current best.
C9_FirstWinsTies ==
    (Fuzzy /\ most_similar_item # 0) =>
        /\ most_similar_item = First(Tops(idx))
        /\ (Done /\ result.kind = "return") =>
              /\ result.pos = First(Tops(Len(args.items)))
              /\ result.value = args.items[result.pos]
        /\ (Done /\ SuggestionRaised /\ Single) =>
              result.body = <<key(args.items[First(Tops(Len(args.items)))])>>
        /\ (Done /\ SuggestionRaised /\ Multi) =>
              result.body = SuggestionLines(keys(args.items[First(Tops(Len(args.items)))]))

\* Two different items tie for the maximum and the first is suggested.
C9_Witness ==
    /\ Done /\ Fuzzy /\ SuggestionRaised
    /\ Len(args.items) = 2
    /\ args.items[1] # args.items[2]
    /\ Tops(2) = {1, 2}
    /\ most_similar_item = 1

----------------------------------------------------------------------------
(* C10 *)

\* C10: after any prefix of the scan the running maximum is the larger of
\* 0.0 and the greatest score of the prefix; when it is above 0.0 the best
\* item is bound, lies in the prefix and has that score; so with th >= 0 the
\* return and suggestion branches never read an unbound best item.
C10_LoopInvariant ==
    Fuzzy =>
        /\ idx \in 0..Len(args.items)
        /\ similarity = RunningMax(idx)
        /\ FLess(FZero, similarity) =>
              /\ most_similar_item \in 1..idx
              /\ ScoreOf(most_similar_item) = similarity
        /\ (Done /\ FLeq(FZero, args.th)) => ~RaisedAs("UnboundLocalError")

\* The second item of the prefix raised the running maximum, and the call
\* went on to return or suggest it.
C10_Witness ==
    /\ Done /\ Fuzzy
    /\ idx = 2
    /\ most_similar_item = 2
    /\ FLess(FZero, ScoreOf(1))
    /\ FLess(ScoreOf(1), similarity)
    /\ result.kind = "return" \/ SuggestionRaised

====
